---- MODULE Spec2Model ----
(***************************************************************************)
(* Verification model of the StockTradebyZ backtest core:                  *)
(*   - the execution engines BaseStrategy.backtest and                     *)
(*     StopLossStrategy.backtest (src/backtest/strategies),                *)
(*   - the cost / valuation arithmetic of BacktestBase                     *)
(*     (src/backtest/backtest_utils.py),                                   *)
(*   - the signal fusion of CombinedStrategy.generate_signals,             *)
(*   - the strategy registry StrategyManager (src/backtest/strategy_manager*)
(*     .py).                                                               *)
(*                                                                         *)
(* Arithmetic is exact (the reals of the formulas, not IEEE doubles).      *)
(* Prices are integers in cents (0.01 yuan) per share, quantities are      *)
(* shares, money is an integer number of units of 0.00001 yuan, so that    *)
(* every product price * quantity * rate of calculate_trading_cost is an   *)
(* integer.  The average cost is a fraction [n, d] of cents per share.     *)
(***************************************************************************)
EXTENDS Integers, Sequences, FiniteSets, TLC

VARIABLES
    \* ---- engine (BaseStrategy / StopLossStrategy instance) ----
    engine,          \* "base" | "stoploss": which backtest() the instance runs
    initial_cash,    \* self.initial_cash
    position_ratio,  \* self.position_ratio, a fraction [n, d]
    days_threshold,  \* self.days_threshold (stop-loss engine)
    bars,            \* the loaded close column, one entry per bar (cents)
    source_signal,   \* what the subclass's generate_signals computes per bar
    data,            \* self.data rows [close, signal] once signals are generated
    pc,              \* "idle" | "loop" | "done"
    idx,             \* number of rows the for-loop has consumed
    current_cash,    \* self.current_cash
    position,        \* self.position
    avg_cost,        \* self.avg_cost, a fraction [n, d]
    trades,          \* self.trades
    equity_curve,    \* self.equity_curve
    current_equity,  \* self.current_equity
    buy_price,       \* self.buy_price (stop-loss engine)
    holding_days,    \* self.holding_days (stop-loss engine)
    result,          \* what backtest() returned
    previous_result, \* what the call of backtest() before this one returned
    \* ---- registry (strategy_manager.py) ----
    global_strategy_registry,  \* identifier -> [class, metadata]
    instances,       \* the strategy objects constructed so far, in order
    call_result,     \* the last StrategyManager call and how it ended
    \* ---- composite (CombinedStrategy instance) ----
    selected_strategies,  \* self.selected_strategies
    sub_strategies,  \* self.sub_strategies: the (name, instance) pairs
    is_initialized,  \* self.is_initialized
    sub_signal,      \* what each source's own generate_signals yields per bar
    frame,           \* the columns of self.data that the composite writes
    gen_result,      \* how the last generate_signals() call ended
    \* ---- a call of BacktestBase.calculate_trading_cost ----
    cost_call        \* its arguments and, once it has returned, its result

engineVars == <<engine, initial_cash, position_ratio, days_threshold, bars,
                source_signal, data, pc, idx, current_cash, position, avg_cost,
                trades, equity_curve, current_equity, buy_price, holding_days,
                result, previous_result>>

registryVars == <<global_strategy_registry, instances, call_result>>

combinedVars == <<selected_strategies, sub_strategies, is_initialized,
                  sub_signal, frame, gen_result>>

costVars == <<cost_call>>

vars == <<engineVars, registryVars, combinedVars, costVars>>

----------------------------------------------------------------------------
(* Bounds of the model *)

\* longest series of bars on which a signal can fire
MaxBars == 3

\* most strategy objects constructed through the registry
MaxInstances == 2
\* longest list of selected sources of a composite
MaxSelected == 2

(* Program constants *)

\* money units per (cent * share): 0.01 yuan = 1000 units of 0.00001 yuan
Scale == 1000
\* self.lot_size
lot_size == 100
\* min_commission = 5 yuan, in money units
min_commission == 500000
\* commission_rate = 0.0003 = 3 / 10000
commission_rate_num == 3
commission_rate_den == 10000
\* stamp_duty_rate = 0.001 = 1 / 1000 when selling
stamp_duty_rate_num == 1
stamp_duty_rate_den == 1000
\* transfer_fee_rate = 0.00002 = 2 / 100000
transfer_fee_rate_num == 2
transfer_fee_rate_den == 100000
\* rolling(window=5) of StopLossStrategy.generate_signals
ma5_window == 5
\* stop_loss_pct = 0.04 = 4 / 100 (the constructor's default)
stop_loss_pct_num == 4
stop_loss_pct_den == 100
\* min_profit_pct = 0.01 = 1 / 100 (the constructor's default)
min_profit_pct_num == 1
min_profit_pct_den == 100

(* Input sets *)

\* closes, in cents per share
Closes == {1, 10, 11}
Signals == {-1, 0, 1}
\* initial cash: 0, 16 and 40 yuan, in money units
InitialCashes == {0, 1600000, 4000000}
PositionRatios == {[n |-> 1, d |-> 2], [n |-> 1, d |-> 1]}
DaysThresholds == {1, 2}

SeqsUpTo(S, n) == UNION {[1..k -> S] : k \in 0..n}

----------------------------------------------------------------------------
(* Fractions *)

RECURSIVE GCD(_, _)
GCD(a, b) == IF b = 0 THEN a ELSE GCD(b, a % b)

Abs(x) == IF x < 0 THEN -x ELSE x

Frac(n, d) ==
    LET g == GCD(Abs(n), Abs(d))
    IN  IF g = 0 THEN [n |-> 0, d |-> 1] ELSE [n |-> n \div g, d |-> d \div g]

Zero == [n |-> 0, d |-> 1]

\* Python's int(): truncation towards zero of a / b, b > 0
IntTrunc(a, b) == IF a >= 0 THEN a \div b ELSE -((-a) \div b)

Max(a, b) == IF a >= b THEN a ELSE b

----------------------------------------------------------------------------
(* BacktestBase: valuation and cost *)

\* price * quantity in money units
Amount(price, quantity) == price * quantity * Scale

\* mutant: the equity is the cash alone, the position is not valued
calculate_equity_cash_only(cash, pos, current_price) == cash

calculate_equity(cash, pos, current_price) ==
    cash + Amount(current_price, pos)

\* price * quantity * rate in money units: the factor Scale of the amount is
\* cancelled against the rate's denominator (a multiple of Scale) before
\* multiplying
TimesRate(price, quantity, num, den) ==
    (price * quantity * num) \div (den \div Scale)

CommissionOf(price, quantity) ==
    Max(TimesRate(price, quantity, commission_rate_num, commission_rate_den),
        min_commission)

\* mutant: the stamp duty is charged on both sides
StampDutyOf_both_sides(price, quantity, is_buy) ==
    TimesRate(price, quantity, stamp_duty_rate_num, stamp_duty_rate_den)

StampDutyOf(price, quantity, is_buy) ==
    IF is_buy THEN 0
    ELSE TimesRate(price, quantity, stamp_duty_rate_num, stamp_duty_rate_den)

TransferFeeOf(price, quantity) ==
    TimesRate(price, quantity, transfer_fee_rate_num, transfer_fee_rate_den)

calculate_trading_cost(price, quantity, is_buy) ==
    CommissionOf(price, quantity) + StampDutyOf(price, quantity, is_buy)
        + TransferFeeOf(price, quantity)

----------------------------------------------------------------------------
(* BaseStrategy.calculate_average_cost *)

\* mutant: the plain mean of the old average cost and the new price
calculate_average_cost_unweighted(pos, avg, new_quantity, new_price) ==
    IF pos = 0
    THEN Frac(new_price, 1)
    ELSE Frac(avg.n + new_price * avg.d, 2 * avg.d)

\* mutant: the average cost is the price of the last purchase
calculate_average_cost_last_price(pos, avg, new_quantity, new_price) ==
    Frac(new_price, 1)

calculate_average_cost(pos, avg, new_quantity, new_price) ==
    IF pos = 0
    THEN Frac(new_price, 1)
    ELSE Frac(pos * avg.n + new_quantity * new_price * avg.d,
              avg.d * (pos + new_quantity))

\* mutant: the profit of one share, not of the whole quantity
PositionProfit_per_share(close, avg, quantity) ==
    Frac((close * avg.d - avg.n) * Scale, avg.d)

\* (close - avg) * quantity, in money units, as a fraction (the common factor
\* of quantity and the denominator is cancelled before multiplying)
PositionProfit(close, avg, quantity) ==
    LET g == GCD(quantity * Scale, avg.d)
    IN  IF g = 0 THEN Zero
        ELSE Frac((close * avg.d - avg.n) * ((quantity * Scale) \div g), avg.d \div g)

----------------------------------------------------------------------------
(* Signal generation *)

RECURSIVE SumRange(_, _, _)
SumRange(s, lo, hi) == IF lo > hi THEN 0 ELSE s[hi] + SumRange(s, lo, hi - 1)

\* StopLossStrategy.generate_signals: signal 1 where close > ma5, the rolling
\* mean of the last 5 closes (undefined, hence no signal, on the first 4 bars)
StopLossSignal(closes, t) ==
    IF t >= ma5_window
          /\ closes[t] * ma5_window > SumRange(closes, t - ma5_window + 1, t)
    THEN 1 ELSE 0

\* the 'signal' column after self.generate_signals()
generate_signals(eng, closes, src) ==
    [t \in 1..Len(closes) |->
        IF eng = "stoploss" THEN StopLossSignal(closes, t) ELSE src[t]]

----------------------------------------------------------------------------
(* The Buy branch, shared by both engines (base_strategy.py 66-102,         *)
(* stop_loss_strategy.py 148-189)                                           *)

max_buy_lots(cash, ratio, close) ==
    IntTrunc(cash * ratio.n, ratio.d * close * lot_size * Scale)

\* mutant: the quantity sized in shares, not rounded down to whole lots
buy_quantity_in_shares(cash, ratio, close) ==
    IntTrunc(cash * ratio.n, ratio.d * close * Scale)

buy_quantity(cash, ratio, close) == max_buy_lots(cash, ratio, close) * lot_size

\* mutant: the Buy debits the amount alone, the trading cost is not charged
total_required_without_cost(cash, ratio, close) ==
    Amount(close, buy_quantity(cash, ratio, close))

total_required(cash, ratio, close) ==
    Amount(close, buy_quantity(cash, ratio, close))
        + calculate_trading_cost(close, buy_quantity(cash, ratio, close), TRUE)

\* mutant: the affordability guard compares with max_buy_amount, not with cash
BuyCommits_within_ratio(cash, ratio, close) ==
    /\ max_buy_lots(cash, ratio, close) > 0
    /\ total_required(cash, ratio, close) * ratio.d <= cash * ratio.n

\* mutant: a Buy of at least one lot commits, whether or not the cash covers it
BuyCommits_lots_only(cash, ratio, close) ==
    max_buy_lots(cash, ratio, close) > 0

\* both guards of the Buy branch: max_buy_lots > 0 and total_required <= cash
BuyCommits(cash, ratio, close) ==
    /\ max_buy_lots(cash, ratio, close) > 0
    /\ total_required(cash, ratio, close) <= cash

\* mutant: total_asset of a Buy from the cash before the trade
buy_total_asset_stale_cash(cash, required, stock_value) == cash + stock_value

\* 'total_asset': self.current_cash - total_required + stock_value
buy_total_asset(cash, required, stock_value) == cash - required + stock_value

\* mutant: a Buy is entered under the date of the bar before
BuyTrade_dated_bar_before(date, cash, pos, avg, ratio, close) ==
    LET q  == buy_quantity(cash, ratio, close)
        sv == Amount(close, pos + q)
        ac == calculate_average_cost(pos, avg, q, close)
    IN  [date |-> date - 1, price |-> close, quantity |-> q, type |-> "buy",
         cost |-> calculate_trading_cost(close, q, TRUE),
         stock_value |-> sv,
         total_asset |-> buy_total_asset(cash, total_required(cash, ratio, close), sv),
         position_profit |-> PositionProfit(close, ac, pos + q),
         sell_reason |-> "none"]

BuyTrade(date, cash, pos, avg, ratio, close) ==
    LET q  == buy_quantity(cash, ratio, close)
        sv == Amount(close, pos + q)
        ac == calculate_average_cost(pos, avg, q, close)
    IN  [date |-> date, price |-> close, quantity |-> q, type |-> "buy",
         cost |-> calculate_trading_cost(close, q, TRUE),
         stock_value |-> sv,
         total_asset |-> buy_total_asset(cash, total_required(cash, ratio, close), sv),
         position_profit |-> PositionProfit(close, ac, pos + q),
         sell_reason |-> "none"]

(* The Sell branch (base_strategy.py 103-133, stop_loss_strategy.py 111-145) *)

\* mutant: a Sell signal commits a Sell also when nothing is held
SellCommits_any_position(sig, pos) == sig = -1

\* base_strategy.py line 103: elif row['signal'] == -1 and self.position > 0
SellCommits(sig, pos) == sig = -1 /\ pos > 0

\* mutant: the sale credits the gross revenue, the cost is not deducted
net_revenue_gross(pos, close) == Amount(close, pos)

net_revenue(pos, close) ==
    Amount(close, pos) - calculate_trading_cost(close, pos, FALSE)

SellTrade(date, cash, pos, avg, close, reason) ==
    [date |-> date, price |-> close, quantity |-> pos, type |-> "sell",
     cost |-> calculate_trading_cost(close, pos, FALSE),
     stock_value |-> 0,
     total_asset |-> cash + net_revenue(pos, close),
     position_profit |-> IF pos > 0 THEN PositionProfit(close, avg, pos) ELSE Zero,
     sell_reason |-> reason]

----------------------------------------------------------------------------
(* The equity curve: one append per loop iteration *)

\* mutant: an equity value equal to the previous entry is not appended
RecordEquity_changes_only(curve, equity) ==
    IF curve # <<>> /\ curve[Len(curve)] = equity THEN curve ELSE Append(curve, equity)

RecordEquity(curve, equity) == Append(curve, equity)

----------------------------------------------------------------------------
(* Stop conditions of StopLossStrategy.backtest *)

\* mutant: the stop block is never entered, a held position does not gate a Buy
holding_position_never(pos) == FALSE

\* line 97, 'if self.position > 0:': the stop block runs and the Buy branch
\* (its elif) is not reached
holding_position(pos) == pos > 0

\* mutant: a stop's Sell carries no reason
sell_reason_blank(fixed, timed) == "none"

\* mutant: the time stop names the reason whenever it holds
sell_reason_time_first(fixed, timed) == IF timed THEN "time stop" ELSE "fixed stop"

\* sell_reason = "fixed stop" if stop_loss_condition else "time stop"
sell_reason(fixed, timed) == IF fixed THEN "fixed stop" ELSE "time stop"

\* close <= buy_price * (1 - stop_loss_pct)
stop_loss_condition(close, bp) ==
    close * stop_loss_pct_den <= bp * (stop_loss_pct_den - stop_loss_pct_num)

\* mutant: the time stop waits one bar more
time_stop_condition_late(close, bp, days, threshold) ==
    /\ days > threshold
    /\ (close - bp) * min_profit_pct_den < min_profit_pct_num * bp

\* mutant: the time stop looks at the holding days alone
time_stop_condition_days_only(close, bp, days, threshold) ==
    days >= threshold

\* holding_days >= days_threshold and (close - buy_price) / buy_price < min_profit_pct
time_stop_condition(close, bp, days, threshold) ==
    /\ days >= threshold
    /\ (close - bp) * min_profit_pct_den < min_profit_pct_num * bp

----------------------------------------------------------------------------
(* State after construction *)

EngineInit ==
    /\ engine \in {"base", "stoploss"}
    /\ initial_cash \in InitialCashes
    /\ position_ratio \in PositionRatios
    /\ days_threshold \in (IF engine = "stoploss" THEN DaysThresholds ELSE {0})
    /\ bars \in SeqsUpTo(Closes, IF engine = "stoploss"
                                  THEN MaxBars + ma5_window - 1 ELSE MaxBars)
    /\ source_signal \in (IF engine = "stoploss" THEN {<<>>}
                          ELSE [1..Len(bars) -> Signals])
    /\ data = <<>>
    /\ pc = "idle"
    /\ idx = 0
    /\ current_cash = initial_cash
    /\ position = 0
    /\ avg_cost = Zero
    /\ trades = <<>>
    /\ equity_curve = <<>>
    /\ current_equity = initial_cash
    /\ buy_price = 0
    /\ holding_days = 0
    /\ result = [kind |-> "none"]
    /\ previous_result = [kind |-> "none"]

config == <<engine, initial_cash, position_ratio, days_threshold, bars, source_signal>>

\* mutant: the ledger of the run before is not emptied
ResetRun_keeps_ledger ==
    /\ trades' = trades
    /\ current_cash' = initial_cash
    /\ position' = 0
    /\ equity_curve' = <<>>
    /\ current_equity' = initial_cash
    /\ avg_cost' = Zero
    /\ buy_price' = 0
    /\ holding_days' = 0

\* the reset at the head of backtest()
ResetRun ==
    /\ trades' = <<>>
    /\ current_cash' = initial_cash
    /\ position' = 0
    /\ equity_curve' = <<>>
    /\ current_equity' = initial_cash
    /\ avg_cost' = Zero
    /\ buy_price' = 0
    /\ holding_days' = 0

\* backtest(), up to the loop: reset the run state, generate the signals; the
\* caller may call it once more when it has returned or raised
BacktestBegin ==
    /\ \/ pc = "idle"
       \/ pc = "done" /\ previous_result.kind = "none"
    /\ previous_result' = result
    /\ result' = [kind |-> "none"]
    /\ ResetRun
    /\ data' = [t \in 1..Len(bars) |->
                  [close |-> bars[t],
                   signal |-> generate_signals(engine, bars, source_signal)[t]]]
    /\ idx' = 0
    /\ pc' = "loop"
    /\ UNCHANGED <<config, registryVars, combinedVars, costVars>>

\* one iteration of the loop of BaseStrategy.backtest
BaseBar ==
    /\ pc = "loop"
    /\ engine = "base"
    /\ idx < Len(data)
    /\ LET date  == idx + 1
           close == data[date].close
           sig   == data[date].signal
           q     == buy_quantity(current_cash, position_ratio, close)
       IN  /\ idx' = date
           /\ current_equity' = calculate_equity(current_cash, position, close)
           /\ equity_curve' = RecordEquity(equity_curve, current_equity')
           /\ IF sig = 1
              THEN IF BuyCommits(current_cash, position_ratio, close)
                   THEN /\ trades' = Append(trades,
                               BuyTrade(date, current_cash, position, avg_cost,
                                        position_ratio, close))
                        /\ avg_cost' = calculate_average_cost(position, avg_cost, q, close)
                        /\ position' = position + q
                        /\ current_cash' = current_cash
                               - total_required(current_cash, position_ratio, close)
                   ELSE UNCHANGED <<trades, avg_cost, position, current_cash>>
              ELSE IF SellCommits(sig, position)
                   THEN /\ trades' = Append(trades,
                               SellTrade(date, current_cash, position, avg_cost,
                                         close, "none"))
                        /\ position' = 0
                        /\ current_cash' = current_cash + net_revenue(position, close)
                        /\ avg_cost' = Zero
                   ELSE UNCHANGED <<trades, avg_cost, position, current_cash>>
    /\ UNCHANGED <<config, data, pc, buy_price, holding_days, result,
                   previous_result, registryVars, combinedVars, costVars>>

\* one iteration of the loop of StopLossStrategy.backtest
StopLossBar ==
    /\ pc = "loop"
    /\ engine = "stoploss"
    /\ idx < Len(data)
    /\ LET date  == idx + 1
           close == data[date].close
           sig   == data[date].signal
           q     == buy_quantity(current_cash, position_ratio, close)
           days  == holding_days + 1
           fixed == stop_loss_condition(close, buy_price)
           timed == time_stop_condition(close, buy_price, days, days_threshold)
       IN  /\ idx' = date
           /\ current_equity' = calculate_equity(current_cash, position, close)
           /\ equity_curve' = RecordEquity(equity_curve, current_equity')
           /\ IF holding_position(position)
              THEN IF fixed \/ timed
                   THEN /\ trades' = Append(trades,
                               SellTrade(date, current_cash, position, avg_cost, close,
                                         sell_reason(fixed, timed)))
                        /\ position' = 0
                        /\ current_cash' = current_cash + net_revenue(position, close)
                        /\ avg_cost' = Zero
                        /\ buy_price' = 0
                        /\ holding_days' = 0
                   ELSE /\ holding_days' = days
                        /\ UNCHANGED <<trades, avg_cost, position, current_cash, buy_price>>
              ELSE IF sig = 1 /\ BuyCommits(current_cash, position_ratio, close)
                   THEN /\ trades' = Append(trades,
                               BuyTrade(date, current_cash, position, avg_cost,
                                        position_ratio, close))
                        /\ avg_cost' = calculate_average_cost(position, avg_cost, q, close)
                        /\ position' = position + q
                        /\ current_cash' = current_cash
                               - total_required(current_cash, position_ratio, close)
                        /\ buy_price' = close
                        /\ holding_days' = 0
                   ELSE UNCHANGED <<trades, avg_cost, position, current_cash,
                                    buy_price, holding_days>>
    /\ UNCHANGED <<config, data, pc, result, previous_result, registryVars,
                   combinedVars, costVars>>

\* the return statement of backtest(); return_rate divides by initial_cash
BacktestReturn ==
    /\ pc = "loop"
    /\ idx = Len(data)
    /\ pc' = "done"
    /\ result' =
         IF initial_cash = 0
         THEN [kind |-> "ZeroDivisionError"]
         ELSE [kind |-> "ok",
               trades |-> trades,
               equity_curve |-> equity_curve,
               final_equity |-> current_equity,
               initial_equity |-> initial_cash,
               return_rate |-> Frac(current_equity - initial_cash, initial_cash)]
    /\ UNCHANGED <<config, data, idx, current_cash, position, avg_cost, trades,
                   equity_curve, current_equity, buy_price, holding_days,
                   previous_result, registryVars, combinedVars, costVars>>

\* an engine instance on which backtest() is never called
EngineParked ==
    /\ engine = "base"
    /\ initial_cash = 0
    /\ position_ratio = [n |-> 1, d |-> 2]
    /\ days_threshold = 0
    /\ bars = <<>>
    /\ source_signal = <<>>
    /\ data = <<>>
    /\ pc = "parked"
    /\ idx = 0
    /\ current_cash = 0
    /\ position = 0
    /\ avg_cost = Zero
    /\ trades = <<>>
    /\ equity_curve = <<>>
    /\ current_equity = 0
    /\ buy_price = 0
    /\ holding_days = 0
    /\ result = [kind |-> "none"]
    /\ previous_result = [kind |-> "none"]

----------------------------------------------------------------------------
(* StrategyManager and the process-wide registry *)

Identifiers == {"basic_kdj", "sma20", "unknown_id"}

StrategyClasses == {"KDJStrategy", "SMA20Strategy"}

\* StrategyMetadata objects: the name is the registry key
Metadatas ==
    {[name |-> "basic_kdj", display_name |-> "basic KDJ"],
     [name |-> "basic_kdj", display_name |-> "KDJ, second edition"],
     [name |-> "sma20", display_name |-> "plain MA20"]}

\* the parameter names of inspect.signature(strategy_class.__init__)
SignatureOf(class) ==
    {"self", "stock_code", "data_dir", "start_date", "end_date", "initial_cash",
     "position_ratio"}
      \cup (IF class = "KDJStrategy" THEN {"n", "m1", "m2"} ELSE {})\cup
           (IF class = "StopLossStrategy"
            THEN {"stop_loss_pct", "days_threshold", "min_profit_pct"} ELSE {})

\* keyword arguments a caller supplies: key -> value
KwargKeys == {"stock_code", "n", "sell_ratio", "self"}
KwargsSets == UNION {[K -> {1}] : K \in SUBSET KwargKeys}

\* mutant: an identifier that is already registered keeps its first entry
register_strategy_keep_first(reg, metadata, class) ==
    [k \in DOMAIN reg \cup {metadata.name} |->
        IF k \in DOMAIN reg
        THEN reg[k]
        ELSE [class |-> class, metadata |-> metadata]]

\* register_strategy(metadata)(strategy_class)
register_strategy(reg, metadata, class) ==
    [k \in DOMAIN reg \cup {metadata.name} |->
        IF k = metadata.name
        THEN [class |-> class, metadata |-> metadata]
        ELSE reg[k]]

\* mutant: an unknown name falls back to the KDJ strategy class
get_strategy_or_default(reg, name) ==
    IF name \notin DOMAIN reg
    THEN [kind |-> "ok", value |-> "KDJStrategy"]
    ELSE [kind |-> "ok", value |-> reg[name].class]

\* get_strategy(name): the class, or ValueError
get_strategy(reg, name) ==
    IF name \notin DOMAIN reg
    THEN [kind |-> "ValueError"]
    ELSE [kind |-> "ok", value |-> reg[name].class]

\* get_strategy_metadata(name): the metadata, or ValueError
get_strategy_metadata(reg, name) ==
    IF name \notin DOMAIN reg
    THEN [kind |-> "ValueError"]
    ELSE [kind |-> "ok", value |-> reg[name].metadata]

\* mutant: every supplied key is kept
filtered_kwargs_unfiltered(class, kwargs) == kwargs

\* filtered_kwargs = {k: v for k, v in kwargs.items() if k in sig.parameters}
filtered_kwargs(class, kwargs) ==
    [k \in DOMAIN kwargs \cap SignatureOf(class) |-> kwargs[k]]

\* create_strategy(name, **kwargs): the constructed object, ValueError for an
\* unknown name, TypeError when the constructor misses its required stock_code
\* or is handed a second value for self
create_strategy(reg, name, kwargs) ==
    LET got == get_strategy(reg, name)
    IN  IF got.kind # "ok"
        THEN got
        ELSE IF \/ "stock_code" \notin DOMAIN filtered_kwargs(got.value, kwargs)
                \/ "self" \in DOMAIN filtered_kwargs(got.value, kwargs)
             THEN [kind |-> "TypeError"]
             ELSE [kind |-> "ok",
                   value |-> [class |-> got.value,
                              kwargs |-> filtered_kwargs(got.value, kwargs)]]

EmptyRegistry == [k \in {} |-> 0]

RegistryInit ==
    /\ global_strategy_registry = EmptyRegistry
    /\ instances = <<>>
    /\ call_result = [op |-> "none"]

RegistryParked == RegistryInit

RegisterStrategy ==
    \E metadata \in Metadatas, class \in StrategyClasses :
        /\ global_strategy_registry' =
               register_strategy(global_strategy_registry, metadata, class)
        /\ call_result' = [op |-> "register_strategy", name |-> metadata.name,
                           kind |-> "ok", value |-> class, metadata |-> metadata]
        /\ UNCHANGED <<instances, engineVars, combinedVars, costVars>>

GetStrategy ==
    \E name \in Identifiers :
        /\ call_result' = [op |-> "get_strategy", name |-> name]
                             @@ get_strategy(global_strategy_registry, name)
        /\ UNCHANGED <<global_strategy_registry, instances, engineVars, combinedVars, costVars>>

GetStrategyMetadata ==
    \E name \in Identifiers :
        /\ call_result' = [op |-> "get_strategy_metadata", name |-> name]
                             @@ get_strategy_metadata(global_strategy_registry, name)
        /\ UNCHANGED <<global_strategy_registry, instances, engineVars, combinedVars, costVars>>

ListStrategies ==
    /\ call_result' = [op |-> "list_strategies", name |-> "",
                       kind |-> "ok", value |-> DOMAIN global_strategy_registry]
    /\ UNCHANGED <<global_strategy_registry, instances, engineVars, combinedVars, costVars>>

ListStrategiesWithMetadata ==
    /\ call_result' =
          [op |-> "list_strategies_with_metadata", name |-> "", kind |-> "ok",
           value |-> [k \in DOMAIN global_strategy_registry |->
                         global_strategy_registry[k].metadata.display_name]]
    /\ UNCHANGED <<global_strategy_registry, instances, engineVars, combinedVars, costVars>>

CreateStrategy ==
    \E name \in Identifiers, kwargs \in KwargsSets :
        LET made == create_strategy(global_strategy_registry, name, kwargs)
        IN  /\ made.kind = "ok" => Len(instances) < MaxInstances
            /\ call_result' = [op |-> "create_strategy", name |-> name,
                               kwargs |-> kwargs] @@ made
            /\ instances' = IF made.kind = "ok"
                            THEN Append(instances, made.value)
                            ELSE instances
            /\ UNCHANGED <<global_strategy_registry, engineVars, combinedVars, costVars>>

\* the registry once the strategies package is imported: every strategy
\* module has registered its class under its metadata name
LoadedRegistry ==
    [k \in {"basic_kdj", "sma20", "volume", "macd", "rsi", "combined_strategy",
            "short_term_stop_loss"} |->
        [class |-> CASE k = "basic_kdj" -> "KDJStrategy"
                     [] k = "sma20" -> "SMA20Strategy"
                     [] k = "volume" -> "VolumeStrategy"
                     [] k = "macd" -> "MACDStrategy"
                     [] k = "rsi" -> "RSIStrategy"
                     [] k = "combined_strategy" -> "CombinedStrategy"
                     [] OTHER -> "StopLossStrategy",
         metadata |-> [name |-> k, display_name |-> k]]]

----------------------------------------------------------------------------
(* CombinedStrategy: signal fusion over the data frame shared with the      *)
(* sub-strategies                                                           *)

\* the bars of the frame (the fusion is evaluated bar by bar)
Dates == {1, 2}
\* the sources a composite selects from; "unknown_id" is not registered
Selectable == {"basic_kdj", "sma20", "unknown_id"}
SignalSources == Selectable \cap DOMAIN LoadedRegistry
SelectedLists == UNION {[1..k -> Selectable] : k \in 1..MaxSelected}

\* the frame before any signal column exists
BareFrame ==
    [columns |-> {},
     signal |-> [t \in Dates |-> 0],
     trigger_strategies |-> [t \in Dates |-> <<>>],
     signal_of |-> [k \in {} |-> 0]]

\* initialize_sub_strategies: create every selected source in order and append
\* it to subs; the first unregistered identifier raises and leaves the
\* sub-strategies appended before it in place
RECURSIVE initialize_sub_strategies(_, _, _, _, _)
initialize_sub_strategies(subs, selected, i, reg, initialized) ==
    IF i > Len(selected)
    THEN [kind |-> "ok", subs |-> subs]
    ELSE LET made == create_strategy(reg, selected[i], [k \in {"stock_code"} |-> 1])
         IN  IF made.kind # "ok"
             THEN [kind |-> made.kind, subs |-> subs]
             ELSE initialize_sub_strategies(
                      Append(subs, [name |-> selected[i],
                                    is_initialized |-> initialized]),
                      selected, i + 1, reg, initialized)

\* lines 76-77: the composite's own columns
ResetColumns(f) ==
    [f EXCEPT !.columns = @ \cup {"signal", "trigger_strategies"},
              !.signal = [t \in Dates |-> 0],
              !.trigger_strategies = [t \in Dates |-> <<>>]]

\* sub_strategy.generate_signals() on the shared frame: it rewrites 'signal'
SubGenerate(f, name, signals) ==
    [f EXCEPT !.columns = @ \cup {"signal"},
              !.signal = signals[name]]

\* mutant: no sub-strategy's signal is kept as a column
SaveSignalColumn_never(f, name) == f

\* lines 85-87: keep the sub-strategy's signal as column signal_<name>
SaveSignalColumn(f, name) ==
    IF "signal" \in f.columns
    THEN [f EXCEPT !.signal_of =
              [k \in DOMAIN f.signal_of \cup {name} |->
                  IF k = name THEN f.signal ELSE f.signal_of[k]]]
    ELSE f

\* lines 80-87: the loop over the sub-strategies; a sub-strategy bound to no
\* data raises ValueError, which ends generate_signals
RECURSIVE CollectSignals(_, _, _, _)
CollectSignals(f, subs, i, signals) ==
    IF i > Len(subs)
    THEN [kind |-> "ok", frame |-> f]
    ELSE IF ~subs[i].is_initialized
         THEN [kind |-> "ValueError", frame |-> f]
         ELSE CollectSignals(
                  SaveSignalColumn(SubGenerate(f, subs[i].name, signals), subs[i].name),
                  subs, i + 1, signals)

\* the indexes of the sub-strategies that have a signal_<name> column
WithColumn(f, subs) == {i \in 1..Len(subs) : subs[i].name \in DOMAIN f.signal_of}

\* lines 97-101: buy_conditions combined with &
combined_buy(f, subs, t) ==
    \A i \in WithColumn(f, subs) : f.signal_of[subs[i].name][t] = 1

\* mutant: sell_conditions combined with &, like the buy conditions
combined_sell_unanimous(f, subs, t) ==
    \A i \in WithColumn(f, subs) : f.signal_of[subs[i].name][t] = -1

\* lines 116-120: sell_conditions combined with |
combined_sell(f, subs, t) ==
    \E i \in WithColumn(f, subs) : f.signal_of[subs[i].name][t] = -1

\* lines 90-106
WriteBuy(f, subs, selected) ==
    IF WithColumn(f, subs) = {}
    THEN f
    ELSE [f EXCEPT
            !.signal = [t \in Dates |->
                          IF combined_buy(f, subs, t) THEN 1 ELSE f.signal[t]],
            !.trigger_strategies = [t \in Dates |->
                          IF combined_buy(f, subs, t) THEN selected
                          ELSE f.trigger_strategies[t]]]

\* lines 124-132: every sub-strategy, in order, whose column is -1 on a bar
\* where the composite is -1, is appended to the bar's attribution
RECURSIVE AppendTriggers(_, _, _)
AppendTriggers(f, subs, i) ==
    IF i > Len(subs)
    THEN f
    ELSE AppendTriggers(
            IF subs[i].name \in DOMAIN f.signal_of
            THEN [f EXCEPT !.trigger_strategies = [t \in Dates |->
                      IF f.signal_of[subs[i].name][t] = -1 /\ f.signal[t] = -1
                      THEN Append(f.trigger_strategies[t], subs[i].name)
                      ELSE f.trigger_strategies[t]]]
            ELSE f,
            subs, i + 1)

\* lines 108-132
WriteSell(f, subs) ==
    IF WithColumn(f, subs) = {}
    THEN f
    ELSE AppendTriggers(
            [f EXCEPT !.signal = [t \in Dates |->
                          IF combined_sell(f, subs, t) THEN -1 ELSE f.signal[t]]],
            subs, 1)

\* generate_signals from line 76 on, with the sub-strategies in place
FuseSignals(f, subs, selected, signals) ==
    LET got == CollectSignals(ResetColumns(f), subs, 1, signals)
    IN  IF got.kind # "ok"
        THEN got
        ELSE [kind |-> "ok",
              frame |-> WriteSell(WriteBuy(got.frame, subs, selected), subs)]

CombinedInit ==
    /\ global_strategy_registry = LoadedRegistry
    /\ instances = <<>>
    /\ call_result = [op |-> "none"]
    /\ selected_strategies \in SelectedLists
    /\ sub_strategies = <<>>
    /\ is_initialized = FALSE
    /\ sub_signal \in [SignalSources -> [Dates -> Signals]]
    /\ frame = BareFrame
    /\ gen_result = [kind |-> "none"]

\* a composite that is never used
CombinedParked ==
    /\ selected_strategies = <<"basic_kdj">>
    /\ sub_strategies = <<>>
    /\ is_initialized = FALSE
    /\ sub_signal = <<>>
    /\ frame = BareFrame
    /\ gen_result = [kind |-> "none"]

\* load_data()
LoadData ==
    /\ ~is_initialized
    /\ is_initialized' = TRUE
    /\ UNCHANGED <<selected_strategies, sub_strategies, sub_signal, frame,
                   gen_result, registryVars, engineVars, costVars>>

\* CombinedStrategy.calculate_indicators(): no is_initialized check; the
\* sub-strategies' own failures are swallowed by the bare except
CalculateIndicators ==
    LET made == IF sub_strategies = <<>>
                THEN initialize_sub_strategies(<<>>, selected_strategies, 1,
                         global_strategy_registry, is_initialized)
                ELSE [kind |-> "ok", subs |-> sub_strategies]
    IN  /\ sub_strategies' = made.subs
        /\ gen_result' = [op |-> "calculate_indicators", kind |-> made.kind]
        /\ UNCHANGED <<selected_strategies, is_initialized, sub_signal, frame,
                       registryVars, engineVars, costVars>>

\* CombinedStrategy.generate_signals()
GenerateSignals ==
    IF ~is_initialized
    THEN /\ gen_result' = [op |-> "generate_signals", kind |-> "ValueError"]
         /\ UNCHANGED <<selected_strategies, sub_strategies, is_initialized,
                        sub_signal, frame, registryVars, engineVars,
                        costVars>>
    ELSE LET made == IF sub_strategies = <<>>
                     THEN initialize_sub_strategies(<<>>, selected_strategies, 1,
                              global_strategy_registry, is_initialized)
                     ELSE [kind |-> "ok", subs |-> sub_strategies]
             fused == FuseSignals(frame, made.subs, selected_strategies, sub_signal)
         IN  /\ sub_strategies' = made.subs
             /\ IF made.kind # "ok"
                THEN /\ gen_result' = [op |-> "generate_signals", kind |-> made.kind]
                     /\ frame' = frame
                ELSE /\ gen_result' = [op |-> "generate_signals", kind |-> fused.kind]
                     /\ frame' = fused.frame
             /\ UNCHANGED <<selected_strategies, is_initialized, sub_signal,
                            registryVars, engineVars, costVars>>

----------------------------------------------------------------------------
(* A call of calculate_trading_cost on an instance in any run state *)

\* prices in cents per share: 0.01, 0.10, 0.11, 1.00 and 20.00 yuan
CostPrices == {1, 10, 11, 100, 2000}
\* quantities in shares
CostQuantities == {50, 100, 200, 1000}

\* no call is made
CostParked == cost_call = [kind |-> "none"]

\* the instance holds some cash and some position when the call is made
CostInit ==
    /\ cost_call \in [kind : {"called"}, price : CostPrices,
                      quantity : CostQuantities, is_buy : BOOLEAN]
    /\ engine = "base"
    /\ initial_cash \in InitialCashes
    /\ position_ratio = [n |-> 1, d |-> 2]
    /\ days_threshold = 0
    /\ bars = <<>>
    /\ source_signal = <<>>
    /\ data = <<>>
    /\ pc = "parked"
    /\ idx = 0
    /\ current_cash \in InitialCashes
    /\ position \in {0, 100}
    /\ avg_cost = Zero
    /\ trades = <<>>
    /\ equity_curve = <<>>
    /\ current_equity = initial_cash
    /\ buy_price = 0
    /\ holding_days = 0
    /\ result = [kind |-> "none"]
    /\ previous_result = [kind |-> "none"]

\* calculate_trading_cost returns (total_cost, commission, stamp_duty)
CalculateTradingCost ==
    /\ cost_call.kind = "called"
    /\ cost_call' =
          [kind |-> "returned", price |-> cost_call.price,
           quantity |-> cost_call.quantity, is_buy |-> cost_call.is_buy,
           total_cost |-> calculate_trading_cost(cost_call.price,
                              cost_call.quantity, cost_call.is_buy),
           commission |-> CommissionOf(cost_call.price, cost_call.quantity),
           stamp_duty |-> StampDutyOf(cost_call.price, cost_call.quantity,
                              cost_call.is_buy)]
    /\ UNCHANGED <<engineVars, registryVars, combinedVars>>

----------------------------------------------------------------------------
(* Specifications *)

Init == EngineInit /\ RegistryParked /\ CombinedParked /\ CostParked

Next == BacktestBegin \/ BaseBar \/ StopLossBar \/ BacktestReturn

\* the execution engines
Spec == Init /\ [][Next]_vars

RegistryNext ==
    \/ RegisterStrategy
    \/ GetStrategy
    \/ GetStrategyMetadata
    \/ ListStrategies
    \/ ListStrategiesWithMetadata
    \/ CreateStrategy

\* the registry
InitRegistry == EngineParked /\ RegistryInit /\ CombinedParked /\ CostParked

SpecRegistry == InitRegistry /\ [][RegistryNext]_vars

CombinedNext == LoadData \/ CalculateIndicators \/ GenerateSignals

\* the composite strategy
InitCombined == EngineParked /\ CombinedInit /\ CostParked

SpecCombined == InitCombined /\ [][CombinedNext]_vars

CostNext == CalculateTradingCost

\* the cost function
InitCost == CostInit /\ RegistryParked /\ CombinedParked

SpecCost == InitCost /\ [][CostNext]_vars

----------------------------------------------------------------------------
(* Properties of the engines *)

Last(s) == s[Len(s)]

\* the bar series is exhausted and backtest() has returned a summary
Returned == pc = "done" /\ result.kind = "ok"

\* C1 (as claimed): in both engines the cash balance is >= 0 after every
\* committed trade, Buy or Sell, also after a Sell whose proceeds are smaller
\* than its minimum-commission cost.
C1_CashNonNegativeAfterTrade ==
    trades # <<>> => current_cash >= 0

\* C2: at every point of every run, in both engines, the position is a
\* non-negative integer multiple of the lot size 100.
C2_PositionWholeLots ==
    /\ position >= 0
    /\ position % 100 = 0

C2_Witness ==
    /\ pc = "loop"
    /\ position > 100
    /\ Len(trades) >= 2

\* C3: after k bars the equity curve has exactly k entries, the entry of bar k
\* is the value recorded at bar k (cash + position * close on entering the
\* bar), earlier entries stay as they are, and when backtest() returns the
\* curve has one entry per bar, whatever trades were committed or skipped.
C3_EquityCurveOnePerBar ==
    /\ [](pc \in {"loop", "done"} => Len(equity_curve) = idx)
    /\ [](pc = "done" => Len(equity_curve) = Len(bars))
    /\ [](Returned => result.equity_curve = equity_curve)
    /\ [][idx' = idx + 1 =>
            equity_curve' = equity_curve
                              \o <<current_cash + bars[idx'] * position * Scale>>]_vars

C3_Witness ==
    /\ Returned
    /\ Len(result.equity_curve) >= 3
    /\ Len(trades) = 1

\* C4: every Trade's total_asset equals the cash after the trade plus its
\* stock_value, and stock_value = (position after the trade) * close; for a
\* Sell, stock_value is 0 and total_asset is the cash after the sale.  (Cash
\* and position change only when a trade commits, so every trade is checked in
\* the states where it is the last of the ledger.)
C4_TotalAssetIsCashPlusStock ==
    trades # <<>> =>
        LET t == Last(trades)
        IN  /\ t.total_asset = current_cash + t.stock_value
            /\ t.stock_value = position * t.price * Scale
            /\ t.type = "sell" => (t.stock_value = 0 /\ t.total_asset = current_cash)

C4_Witness ==
    /\ Len(trades) >= 2
    /\ trades[1].type = "buy"
    /\ trades[1].stock_value > 0
    /\ Last(trades).type = "sell"

\* the run of a round trip: the only two trades are a Buy on some bar and a
\* Sell on the next bar, and every close from the Buy bar on is the Buy price
RoundTrip ==
    /\ engine = "base"
    /\ Returned
    /\ Len(trades) = 2
    /\ trades[1].type = "buy"
    /\ trades[2].type = "sell"
    /\ trades[2].date = trades[1].date + 1
    /\ \A t \in trades[1].date .. Len(bars) : bars[t] = trades[1].price

\* C7 (as claimed): after a round trip final_equity is below initial_equity by
\* exactly the Buy's cost plus the Sell's cost, wherever the Sell bar lies,
\* the last bar included.
C7_RoundTripLosesBothCosts ==
    RoundTrip =>
        /\ result.final_equity < result.initial_equity
        /\ result.initial_equity - result.final_equity
              = trades[1].cost + trades[2].cost

\* C7 (amended): after a round trip final_equity < initial_equity; the
\* difference is the Buy's cost plus the Sell's cost when a bar follows the
\* Sell bar, and the Buy's cost alone when the Sell bar is the last bar.
C7_RoundTripAmended ==
    RoundTrip =>
        /\ result.final_equity < result.initial_equity
        /\ result.initial_equity - result.final_equity
              = IF trades[2].date < Len(bars)
                THEN trades[1].cost + trades[2].cost
                ELSE trades[1].cost

C7_Witness ==
    /\ RoundTrip
    /\ trades[2].date < Len(bars)
    /\ result.initial_equity - result.final_equity > 2 * min_commission

\* the signal stream holds exactly one Buy, on bar b, and exactly one Sell, on
\* the later bar s, and Hold everywhere else
OneBuyThenOneSell(b, s) ==
    /\ b < s
    /\ \A t \in 1..Len(data) :
          data[t].signal = (IF t = b THEN 1 ELSE IF t = s THEN -1 ELSE 0)

\* the ledger is exactly [Buy, Sell], of equal quantity, and nothing is held
LedgerBuySell ==
    /\ Len(trades) = 2
    /\ trades[1].type = "buy"
    /\ trades[2].type = "sell"
    /\ trades[2].quantity = trades[1].quantity
    /\ position = 0

\* C8 (as claimed): base engine, one Buy signal then one Sell signal, and
\* cash * position_ratio at the Buy bar covers one lot plus its trading cost:
\* the returned ledger is [Buy, Sell], equal quantities, position 0.
C8_OneBuyOneSell ==
    (engine = "base" /\ Returned) =>
        \A b, s \in 1..Len(data) :
            ( /\ OneBuyThenOneSell(b, s)
              /\ initial_cash * position_ratio.n
                   >= position_ratio.d
                        * (bars[b] * 100 * Scale
                             + calculate_trading_cost(bars[b], 100, TRUE)) )
            => (LedgerBuySell /\ result.trades = trades)

\* C8 (amended): the same, provided the quantity the engine sizes at the Buy
\* bar, qty = floor(cash * f / (close * 100)) * 100, is positive and
\* qty * close + cost(qty) <= cash.
C8_OneBuyOneSellAmended ==
    (engine = "base" /\ Returned) =>
        \A b, s \in 1..Len(data) :
            ( /\ OneBuyThenOneSell(b, s)
              /\ max_buy_lots(initial_cash, position_ratio, bars[b]) > 0
              /\ total_required(initial_cash, position_ratio, bars[b]) <= initial_cash )
            => (LedgerBuySell /\ result.trades = trades)

C8_Witness ==
    /\ engine = "base"
    /\ Returned
    /\ OneBuyThenOneSell(1, 3)
    /\ LedgerBuySell
    /\ trades[1].date = 1
    /\ trades[2].date = 3

\* C10: stop-loss engine: whenever a position is held entering bar t and
\* close(t) <= buy_price * (1 - stop_loss_pct), bar t appends a Sell of the
\* whole position tagged "fixed stop" and the position becomes 0, whatever the
\* bar's signal and the holding-day count.
C10_FixedStopSells ==
    [][ ( /\ engine = "stoploss"
          /\ idx' = idx + 1
          /\ position > 0
          /\ bars[idx'] * stop_loss_pct_den
                <= buy_price * (stop_loss_pct_den - stop_loss_pct_num) )
        => ( /\ Len(trades') = Len(trades) + 1
             /\ SubSeq(trades', 1, Len(trades)) = trades
             /\ Last(trades').type = "sell"
             /\ Last(trades').date = idx'
             /\ Last(trades').price = bars[idx']
             /\ Last(trades').quantity = position
             /\ Last(trades').sell_reason = "fixed stop"
             /\ position' = 0 ) ]_vars

\* a fixed-stop Sell on a bar whose own signal is Buy, with the time-stop
\* condition true on the same bar
C10_Witness ==
    /\ engine = "stoploss"
    /\ trades # <<>>
    /\ Last(trades).sell_reason = "fixed stop"
    /\ Last(trades).date = idx
    /\ data[idx].signal = 1
    /\ days_threshold = 1
    /\ position = 0

\* the ledger alternates Buy, Sell, Buy, ... starting with a Buy
LedgerAlternates ==
    \A i \in 1..Len(trades) :
        trades[i].type = (IF i % 2 = 1 THEN "buy" ELSE "sell")

\* C11: stop-loss engine: a Buy is committed only on a bar entered with
\* position = 0, the position never increases while it is > 0, and the ledger
\* strictly alternates Buy, Sell, Buy, ... starting with a Buy.
C11_BuyOnlyWhenFlat ==
    /\ [](engine = "stoploss" => LedgerAlternates)
    /\ [][ engine = "stoploss" =>
             /\ position > 0 => position' <= position
             /\ ( /\ Len(trades') = Len(trades) + 1
                  /\ Last(trades').type = "buy" ) => position = 0 ]_vars

\* a bar whose signal is Buy was entered with a position held, the stops did
\* not fire and nothing was bought
C11_Witness ==
    /\ engine = "stoploss"
    /\ pc = "loop"
    /\ idx > 0
    /\ data[idx].signal = 1
    /\ position > 0
    /\ Last(trades).type = "buy"
    /\ Last(trades).date < idx

\* C18: in both engines, while a run lasts, the ledger is append-only and
\* ordered: a bar appends at most one Trade, a Trade appended at bar t carries
\* date t and price close(t), the Trades already in the ledger stay as they
\* are and where they are, and Trade dates increase strictly along the ledger.
C18_LedgerAppendOnly ==
    /\ [][ pc = "loop" =>
             /\ Len(trades') \in {Len(trades), Len(trades) + 1}
             /\ SubSeq(trades', 1, Len(trades)) = trades
             /\ Len(trades') = Len(trades) + 1 =>
                   /\ idx' = idx + 1
                   /\ Last(trades').date = idx'
                   /\ Last(trades').price = bars[idx'] ]_vars
    /\ [](\A i \in 1..Len(trades) :
             /\ trades[i].date \in 1..idx
             /\ i > 1 => trades[i - 1].date < trades[i].date)
    /\ [](Returned => result.trades = trades)

\* a run has appended three Trades, on three different bars
C18_Witness ==
    /\ pc = "loop"
    /\ Len(trades) = 3
    /\ trades[1].date < trades[2].date
    /\ trades[2].date < trades[3].date

\* C19: base engine: a Buy signal is not gated by the position.  On a bar with
\* signal +1, position > 0, floor(cash * f / (close * 100)) > 0 and
\* qty * close + cost <= cash, a further Buy is committed, the position grows
\* by qty = floor(cash * f / (close * 100)) * 100, cash falls by
\* qty * close + cost, and the average cost becomes the quantity-weighted
\* average of the old average cost and the bar's close.
C19_PyramidingBuy ==
    [][ ( /\ engine = "base"
          /\ pc = "loop"
          /\ idx' = idx + 1
          /\ data[idx'].signal = 1
          /\ position > 0 )
        => LET close == bars[idx']
               lots  == (current_cash * position_ratio.n)
                           \div (position_ratio.d * close * 100 * Scale)
               qty   == lots * 100
               cost  == calculate_trading_cost(close, qty, TRUE)
           IN  (lots > 0 /\ qty * close * Scale + cost <= current_cash)
               => /\ Len(trades') = Len(trades) + 1
                  /\ Last(trades').type = "buy"
                  /\ Last(trades').quantity = qty
                  /\ position' = position + qty
                  /\ current_cash' = current_cash - (qty * close * Scale + cost)
                  /\ avg_cost'.n * avg_cost.d * (position + qty)
                        = avg_cost'.d
                            * (position * avg_cost.n + qty * close * avg_cost.d) ]_vars

\* a second Buy, at another price than the first, was committed while the
\* first purchase was held
C19_Witness ==
    /\ engine = "base"
    /\ pc = "loop"
    /\ Len(trades) = 2
    /\ trades[1].type = "buy"
    /\ trades[2].type = "buy"
    /\ trades[2].price # trades[1].price
    /\ position = trades[1].quantity + trades[2].quantity
    /\ avg_cost.n # trades[2].price * avg_cost.d

\* C20: base engine: on a bar with signal -1 and position q > 0 exactly one
\* Sell is appended, of quantity q (the whole position), with position_profit
\* = (close - average cost before the sale) * q; afterwards position = 0,
\* average cost = 0 and cash has grown by q * close - cost.
C20_SellsWholePosition ==
    [][ ( /\ engine = "base"
          /\ pc = "loop"
          /\ idx' = idx + 1
          /\ data[idx'].signal = -1
          /\ position > 0 )
        => LET close == bars[idx']
               sold  == Last(trades')
               pp    == sold.position_profit
           IN  /\ Len(trades') = Len(trades) + 1
               /\ SubSeq(trades', 1, Len(trades)) = trades
               /\ sold.type = "sell"
               /\ sold.quantity = position
               /\ avg_cost.d % pp.d = 0
               /\ pp.n * (avg_cost.d \div pp.d)
                     = (close * avg_cost.d - avg_cost.n) * position * Scale
               /\ position' = 0
               /\ avg_cost' = Zero
               /\ current_cash' = current_cash + position * close * Scale
                                     - calculate_trading_cost(close, position, FALSE) ]_vars

\* a position built by two Buys at different prices has been sold as a whole
C20_Witness ==
    /\ engine = "base"
    /\ Len(trades) = 3
    /\ trades[1].type = "buy"
    /\ trades[2].type = "buy"
    /\ trades[1].price # trades[2].price
    /\ trades[3].type = "sell"
    /\ trades[3].quantity = trades[1].quantity + trades[2].quantity
    /\ trades[3].position_profit.n # 0
    /\ position = 0

\* C21: base engine: a bar whose signal is Hold (0), or Sell (-1) while the
\* position is 0, leaves cash, position, average cost and the ledger as they
\* were; its only effect is one appended equity-curve entry.
C21_HoldBarChangesNothing ==
    [][ ( /\ engine = "base"
          /\ pc = "loop"
          /\ idx' = idx + 1
          /\ \/ data[idx'].signal = 0
             \/ data[idx'].signal = -1 /\ position = 0 )
        => ( /\ current_cash' = current_cash
             /\ position' = position
             /\ avg_cost' = avg_cost
             /\ trades' = trades
             /\ Len(equity_curve') = Len(equity_curve) + 1
             /\ SubSeq(equity_curve', 1, Len(equity_curve)) = equity_curve
             /\ UNCHANGED <<data, bars, initial_cash, position_ratio, buy_price,
                            holding_days, pc>> ) ]_vars

\* a Hold bar and then a Sell bar have passed with nothing held
C21_Witness ==
    /\ engine = "base"
    /\ pc = "loop"
    /\ idx = 2
    /\ data[1].signal = 0
    /\ data[2].signal = -1
    /\ position = 0
    /\ trades = <<>>
    /\ Len(equity_curve) = 2

\* C22: in both engines the equity recorded for bar t is (cash entering bar
\* t) + (position entering bar t) * close(t); the returned final_equity is the
\* last equity-curve entry, so it leaves out the cost of a trade committed on
\* the last bar; return_rate = (final_equity - initial_equity) / initial_equity.
C22_EquityRecordedBeforeTrade ==
    /\ [][ idx' = idx + 1 =>
             /\ Len(equity_curve') = idx'
             /\ equity_curve'[idx'] = current_cash + position * bars[idx'] * Scale ]_vars
    /\ []( (Returned /\ bars # <<>>) =>
             /\ result.final_equity = Last(result.equity_curve)
             /\ result.initial_equity = initial_cash
             /\ result.return_rate.d > 0
             /\ result.initial_equity % result.return_rate.d = 0
             /\ result.return_rate.n * (result.initial_equity \div result.return_rate.d)
                   = result.final_equity - result.initial_equity
             /\ (trades # <<>> /\ Last(trades).date = Len(bars)) =>
                   result.final_equity
                      = current_cash + position * bars[Len(bars)] * Scale
                          + Last(trades).cost )

\* backtest() has returned after a Buy committed on the last of several bars
C22_Witness ==
    /\ Returned
    /\ Len(bars) >= 2
    /\ trades # <<>>
    /\ Last(trades).date = Len(bars)
    /\ Last(trades).type = "buy"
    /\ result.final_equity > current_cash + position * bars[Len(bars)] * Scale

\* the quantity sized at a Buy bar is zero lots, or costs more than the cash
Unaffordable(cash, ratio, close) ==
    LET lots == (cash * ratio.n) \div (ratio.d * close * 100 * Scale)
        qty  == lots * 100
    IN  \/ lots = 0
        \/ qty * close * Scale + calculate_trading_cost(close, qty, TRUE) > cash

\* C23 (as claimed): on a bar with signal +1 on which the sized quantity is
\* zero lots or qty * close + cost > cash, no Trade is appended and cash,
\* position and average cost are unchanged.
C23_UnaffordableBuyCommitsNothing ==
    [][ ( /\ pc = "loop"
          /\ idx' = idx + 1
          /\ data[idx'].signal = 1
          /\ Unaffordable(current_cash, position_ratio, bars[idx']) )
        => ( /\ trades' = trades
             /\ current_cash' = current_cash
             /\ position' = position
             /\ avg_cost' = avg_cost ) ]_vars

\* C23 (amended): the same for every bar of the base engine and for the bars
\* of the stop-loss engine that are entered with position 0 (a bar entered
\* with a position held runs the stop check, which may sell).
C23_UnaffordableBuyAmended ==
    [][ ( /\ pc = "loop"
          /\ idx' = idx + 1
          /\ data[idx'].signal = 1
          /\ engine = "stoploss" => position = 0
          /\ Unaffordable(current_cash, position_ratio, bars[idx']) )
        => ( /\ trades' = trades
             /\ current_cash' = current_cash
             /\ position' = position
             /\ avg_cost' = avg_cost ) ]_vars

\* a Buy bar of the base engine on which one lot would fit the ratio, the
\* sized quantity did not fit the cash, and nothing was bought
C23_Witness ==
    /\ engine = "base"
    /\ pc = "loop"
    /\ idx = 1
    /\ data[1].signal = 1
    /\ max_buy_lots(initial_cash, position_ratio, bars[1]) > 0
    /\ trades = <<>>
    /\ current_cash = initial_cash
    /\ position = 0

\* the index of the last Sell of the ledger, 0 when there is none
RECURSIVE LastSellUpTo(_)
LastSellUpTo(k) ==
    IF k = 0 THEN 0
    ELSE IF trades[k].type = "sell" THEN k ELSE LastSellUpTo(k - 1)

\* the Buys since the last liquidation
BuysSinceLiquidation == (LastSellUpTo(Len(trades)) + 1) .. Len(trades)

RECURSIVE SumQuantity(_)
SumQuantity(S) ==
    IF S = {} THEN 0
    ELSE LET i == CHOOSE j \in S : TRUE
         IN  trades[i].quantity + SumQuantity(S \ {i})

RECURSIVE SumQuantityTimesPrice(_)
SumQuantityTimesPrice(S) ==
    IF S = {} THEN 0
    ELSE LET i == CHOOSE j \in S : TRUE
         IN  trades[i].quantity * trades[i].price + SumQuantityTimesPrice(S \ {i})

\* C24: at every point of every run (closes are positive) the average cost is
\* 0 exactly when the position is 0; when the position is > 0 it is the sum of
\* qty_i * price_i over the Buys since the last liquidation divided by the sum
\* of qty_i, hence between the lowest and the highest of those Buy prices; a
\* Buy from position 0 sets it to the Buy price and a Sell resets it to 0.
C24_AverageCost ==
    /\ [](avg_cost.d > 0)
    /\ [](avg_cost.n = 0 <=> position = 0)
    /\ [](position > 0 =>
            /\ position = SumQuantity(BuysSinceLiquidation)
            /\ avg_cost.n * position
                  = avg_cost.d * SumQuantityTimesPrice(BuysSinceLiquidation)
            /\ \A i \in BuysSinceLiquidation : trades[i].type = "buy"
            /\ \E i \in BuysSinceLiquidation : trades[i].price * avg_cost.d <= avg_cost.n
            /\ \E i \in BuysSinceLiquidation : trades[i].price * avg_cost.d >= avg_cost.n)
    /\ [][ (pc = "loop" /\ position = 0 /\ position' > 0) =>
             avg_cost' = [n |-> bars[idx'], d |-> 1] ]_vars
    /\ [][ (position > 0 /\ position' = 0) => avg_cost' = Zero ]_vars

\* two Buys at different prices are held and the average cost lies strictly
\* between the two prices
C24_Witness ==
    /\ position > 0
    /\ Cardinality(BuysSinceLiquidation) = 2
    /\ \E i \in BuysSinceLiquidation : trades[i].price * avg_cost.d < avg_cost.n
    /\ \E i \in BuysSinceLiquidation : trades[i].price * avg_cost.d > avg_cost.n

\* C25: stop-loss engine: the exit check goes before the entry.  On a bar
\* entered with position > 0 on which the fixed-stop or the time-stop condition
\* holds, the whole position is sold and nothing is bought, also when the
\* bar's signal is +1; the reason is "fixed stop" whenever the fixed-stop
\* condition holds and "time stop" when the time-stop condition alone holds;
\* buy_price and holding_days are reset to 0.
C25_ExitBeforeEntry ==
    [][ ( /\ engine = "stoploss"
          /\ pc = "loop"
          /\ idx' = idx + 1
          /\ position > 0 )
        => LET close == bars[idx']
               fixed == close * 100 <= buy_price * 96
               timed == /\ holding_days + 1 >= days_threshold
                        /\ (close - buy_price) * 100 < buy_price
           IN  (fixed \/ timed)
               => /\ Len(trades') = Len(trades) + 1
                  /\ SubSeq(trades', 1, Len(trades)) = trades
                  /\ Last(trades').type = "sell"
                  /\ Last(trades').quantity = position
                  /\ Last(trades').sell_reason
                        = (IF fixed THEN "fixed stop" ELSE "time stop")
                  /\ position' = 0
                  /\ buy_price' = 0
                  /\ holding_days' = 0 ]_vars

\* the time stop alone has sold the position on a bar whose signal is +1
C25_Witness ==
    /\ engine = "stoploss"
    /\ trades # <<>>
    /\ Last(trades).type = "sell"
    /\ Last(trades).sell_reason = "time stop"
    /\ Last(trades).date = idx
    /\ data[idx].signal = 1
    /\ position = 0
    /\ buy_price = 0
    /\ holding_days = 0

\* the gain since the Buy is below min_profit_pct and the close is above the
\* fixed stop on every bar after the Buy bar b up to bar t
QuietSince(b, t) ==
    \A u \in (b + 1) .. t :
        /\ (bars[u] - bars[b]) * 100 < bars[b]
        /\ bars[u] * 100 > bars[b] * 96

\* C26: stop-loss engine: holding_days is 0 on the bar of the Buy and grows by
\* 1 on each later bar entered with the position held; the time stop fires on
\* bar t exactly when holding_days(t) >= days_threshold and
\* (close(t) - buy_price) / buy_price < min_profit_pct; so no "time stop" Sell
\* comes earlier than days_threshold bars after the Buy bar, and a position
\* whose gain stays below min_profit_pct and above the fixed stop is sold
\* exactly days_threshold bars after the Buy bar.
C26_TimeStop ==
    /\ []( (engine = "stoploss" /\ position > 0) =>
             /\ Last(trades).type = "buy"
             /\ holding_days = idx - Last(trades).date
             /\ QuietSince(Last(trades).date, idx) => holding_days < days_threshold )
    /\ [][ ( /\ engine = "stoploss"
             /\ pc = "loop"
             /\ idx' = idx + 1
             /\ position > 0 )
           => LET close == bars[idx']
                  fixed == close * 100 <= buy_price * 96
                  timed == /\ holding_days + 1 >= days_threshold
                           /\ (close - buy_price) * 100 < buy_price
              IN  /\ Len(trades') = Len(trades) + 1 <=> (fixed \/ timed)
                  /\ ( /\ Len(trades') = Len(trades) + 1
                       /\ Last(trades').sell_reason = "time stop" )
                       <=> (timed /\ ~fixed)
                  /\ ~(fixed \/ timed) => holding_days' = holding_days + 1 ]_vars
    /\ []( engine = "stoploss" =>
             \A i \in 2..Len(trades) :
                 trades[i].sell_reason = "time stop" =>
                     /\ trades[i - 1].type = "buy"
                     /\ trades[i].date - trades[i - 1].date >= days_threshold
                     /\ QuietSince(trades[i - 1].date, trades[i].date) =>
                           trades[i].date - trades[i - 1].date = days_threshold )

\* with days_threshold 2, a position whose price did not move was sold by the
\* time stop two bars after its Buy
C26_Witness ==
    /\ engine = "stoploss"
    /\ days_threshold = 2
    /\ Len(trades) = 2
    /\ trades[2].sell_reason = "time stop"
    /\ trades[2].date = trades[1].date + 2
    /\ QuietSince(trades[1].date, trades[2].date)

\* the sum of the costs of the trades committed before bar t
RECURSIVE CostsBefore(_, _)
CostsBefore(k, t) ==
    IF k = 0 THEN 0
    ELSE (IF trades[k].date < t THEN trades[k].cost ELSE 0) + CostsBefore(k - 1, t)

\* C29: trades conserve value up to their cost.  In both engines a trade
\* committed at bar t leaves cash + position * close(t) lower by exactly the
\* cost of the trade; hence on a series whose closes are all equal the equity
\* curve is non-increasing and its last entry is the initial cash minus the
\* costs of the trades committed before the last bar.
C29_TradesConserveValue ==
    /\ [][ (pc = "loop" /\ Len(trades') = Len(trades) + 1) =>
             current_cash' + position' * bars[idx'] * Scale
                = current_cash + position * bars[idx'] * Scale - Last(trades').cost ]_vars
    /\ []( ( /\ pc \in {"loop", "done"}
             /\ idx > 0
             /\ \A t \in 1..idx : bars[t] = bars[1] )
           => /\ \A t \in 2..idx : equity_curve[t] <= equity_curve[t - 1]
              /\ equity_curve[idx] = initial_cash - CostsBefore(Len(trades), idx) )

\* a run over equal closes has returned after a Buy and a Sell that were both
\* committed before the last bar
C29_Witness ==
    /\ Returned
    /\ Len(bars) >= 3
    /\ \A t \in 1..Len(bars) : bars[t] = bars[1]
    /\ Len(trades) = 2
    /\ Last(trades).date < Len(bars)
    /\ Last(result.equity_curve) = initial_cash - trades[1].cost - trades[2].cost

\* C30: stop-loss engine: the per-bar signal only opens a position.  The
\* signal column holds no -1, every Sell of the ledger carries the reason
\* "fixed stop" or "time stop", a bar entered with a position on which neither
\* stop condition holds changes nothing but holding_days (a +1 signal is
\* ignored), and whenever position > 0 buy_price equals the average cost and
\* the price of the most recent Buy.
C30_SignalOnlyOpens ==
    /\ []( engine = "stoploss" =>
             /\ \A t \in 1..Len(data) : data[t].signal \in {0, 1}
             /\ \A i \in 1..Len(trades) :
                   trades[i].type = "sell" =>
                       trades[i].sell_reason \in {"fixed stop", "time stop"}
             /\ position > 0 =>
                   /\ avg_cost = [n |-> buy_price, d |-> 1]
                   /\ Last(trades).type = "buy"
                   /\ Last(trades).price = buy_price )
    /\ [][ ( /\ engine = "stoploss"
             /\ pc = "loop"
             /\ idx' = idx + 1
             /\ position > 0
             /\ ~(bars[idx'] * 100 <= buy_price * 96)
             /\ ~( /\ holding_days + 1 >= days_threshold
                   /\ (bars[idx'] - buy_price) * 100 < buy_price ) )
           => ( /\ holding_days' = holding_days + 1
                /\ UNCHANGED <<current_cash, position, avg_cost, trades,
                               buy_price, data>> ) ]_vars
    /\ [][ ( /\ engine = "stoploss"
             /\ pc = "loop"
             /\ Len(trades') = Len(trades) + 1
             /\ Last(trades').type = "sell" )
           => ( position > 0 /\ Last(trades').sell_reason # "none" ) ]_vars

\* a bar whose signal is +1 was passed with the position held and no stop
\* fired: only holding_days moved
C30_Witness ==
    /\ engine = "stoploss"
    /\ pc = "loop"
    /\ days_threshold = 2
    /\ position > 0
    /\ holding_days = 1
    /\ data[idx].signal = 1
    /\ Len(trades) = 1
    /\ buy_price = trades[1].price

\* C15: every call of backtest() starts from a fresh run state (cash =
\* initial cash, position 0, average cost 0, empty ledger, empty equity curve,
\* buy_price 0, holding_days 0), and a second call on the same instance over
\* the same bars ends as the first did: the same result, with no trade or
\* equity entry carried over from the first run.
C15_FreshRunEachCall ==
    /\ [][ (pc # "loop" /\ pc' = "loop") =>
             /\ current_cash' = initial_cash
             /\ position' = 0
             /\ avg_cost' = Zero
             /\ trades' = <<>>
             /\ equity_curve' = <<>>
             /\ buy_price' = 0
             /\ holding_days' = 0 ]_vars
    /\ []( (pc = "done" /\ previous_result.kind # "none") =>
             /\ result = previous_result
             /\ result.kind = "ok" =>
                   /\ Len(result.trades) = Len(previous_result.trades)
                   /\ Len(result.equity_curve) = Len(bars) )

\* the second call has returned after a first run that traded twice
C15_Witness ==
    /\ pc = "done"
    /\ previous_result.kind = "ok"
    /\ Len(previous_result.trades) >= 2
    /\ result.kind = "ok"
    /\ Len(result.trades) >= 2

----------------------------------------------------------------------------
(* Properties of the cost function *)

\* C12: for every price > 0, quantity > 0 and side, calculate_trading_cost
\* returns commission = max(price * quantity * 0.0003, 5) >= 5, stamp duty =
\* price * quantity * 0.001 > 0 when selling and exactly 0 when buying, total =
\* commission + stamp duty + price * quantity * 0.00002 (hence > 5), and the
\* call leaves the run state as it was.  (Money in units of 0.00001 yuan and
\* prices in cents: 5 yuan = 500000, price * quantity * 0.0003 yuan =
\* price * quantity * 3 / 10 units.)
C12_TradingCost ==
    /\ [](cost_call.kind = "returned" =>
            LET pq == cost_call.price * cost_call.quantity
            IN  /\ cost_call.commission * 10
                     = (IF pq * 3 >= 5000000 THEN pq * 3 ELSE 5000000)
                /\ cost_call.commission >= 500000
                /\ cost_call.is_buy => cost_call.stamp_duty = 0
                /\ ~cost_call.is_buy =>
                     (cost_call.stamp_duty = pq /\ cost_call.stamp_duty > 0)
                /\ (cost_call.total_cost - cost_call.commission
                        - cost_call.stamp_duty) * 100 = pq * 2
                /\ cost_call.total_cost > 500000)
    /\ [][cost_call' # cost_call =>
            UNCHANGED <<current_cash, position, avg_cost, trades, equity_curve,
                        current_equity, initial_cash>>]_vars

\* a sale large enough for the commission to exceed its minimum, made on an
\* instance that holds a position, has returned
C12_Witness ==
    /\ cost_call.kind = "returned"
    /\ ~cost_call.is_buy
    /\ cost_call.commission > min_commission
    /\ cost_call.stamp_duty > 0
    /\ position > 0

----------------------------------------------------------------------------
(* Properties of the composite strategy *)

\* every selected identifier names a registered source
SelectionOfSources ==
    \A i \in 1..Len(selected_strategies) :
        selected_strategies[i] \in DOMAIN global_strategy_registry

\* generate_signals() has returned normally on a selection of sources, and the
\* frame holds its columns
Fused ==
    /\ SelectionOfSources
    /\ gen_result = [op |-> "generate_signals", kind |-> "ok"]

\* the own signal of the i-th selected source on bar t
OwnSignal(i, t) == sub_signal[selected_strategies[i]][t]

\* C5 (as claimed): after generate_signals, for every non-empty list of
\* selected sources, the composite signal of a bar is +1 only if every selected source's own signal on that bar is +1; a bar on
\* which only the last-listed source signals Buy and none signals Sell is 0.
C5_BuyIsUnanimous ==
    Fused =>
        \A t \in Dates :
            frame.signal[t] = 1 =>
                \A i \in 1..Len(selected_strategies) : OwnSignal(i, t) = 1

\* C6: after generate_signals, for every non-empty list of selected sources,
\* the composite signal of a bar is -1 if and only if at least one selected
\* source's own signal on that bar is -1; a bar for which both the Buy and the
\* Sell condition are true ends -1.
C6_SellIffAnySourceSells ==
    Fused =>
        \A t \in Dates :
            /\ frame.signal[t] = -1
                 <=> \E i \in 1..Len(selected_strategies) : OwnSignal(i, t) = -1
            /\ ( /\ \A i \in 1..Len(selected_strategies) :
                        frame.signal_of[selected_strategies[i]][t] = 1
                 /\ \E i \in 1..Len(selected_strategies) :
                        frame.signal_of[selected_strategies[i]][t] = -1 )
                 => frame.signal[t] = -1

\* one source sells and another buys on a bar, and the composite sells there,
\* while another bar has no seller
C6_Witness ==
    /\ Fused
    /\ Len(selected_strategies) = 2
    /\ \E t \in Dates :
          /\ OwnSignal(1, t) = 1
          /\ OwnSignal(2, t) = -1
          /\ frame.signal[t] = -1
    /\ \E t \in Dates : frame.signal[t] # -1

\* the selected sources whose own signal on bar t is -1, in selection order
RECURSIVE SellersUpTo(_, _)
SellersUpTo(k, t) ==
    IF k = 0 THEN <<>>
    ELSE IF OwnSignal(k, t) = -1
         THEN Append(SellersUpTo(k - 1, t), selected_strategies[k])
         ELSE SellersUpTo(k - 1, t)

\* C27 (as claimed): after generate_signals the attribution matches the
\* decision on every bar: composite +1 has trigger_strategies = the list of
\* all selected sources; composite -1 has exactly the selected sources whose
\* own signal on that bar is -1, in selection order; composite 0 has none.
C27_AttributionMatchesDecision ==
    Fused =>
        \A t \in Dates :
            /\ frame.signal[t] = 1 =>
                  frame.trigger_strategies[t] = selected_strategies
            /\ frame.signal[t] = -1 =>
                  frame.trigger_strategies[t]
                     = SellersUpTo(Len(selected_strategies), t)
            /\ frame.signal[t] = 0 => frame.trigger_strategies[t] = <<>>

\* C28: after generate_signals on a non-empty selection of registered
\* sources, every selected source has a sub-strategy and every sub-strategy
\* has its signal column (no source is skipped), and on no bar are the
\* composite Buy condition (every source +1) and the composite Sell condition
\* (some source -1) both true, so the Sell step never overwrites a bar that
\* the Buy step wrote.
C28_BuyAndSellExclusive ==
    Fused =>
        /\ Len(sub_strategies) = Len(selected_strategies)
        /\ \A i \in 1..Len(sub_strategies) :
              /\ sub_strategies[i].name = selected_strategies[i]
              /\ sub_strategies[i].name \in DOMAIN frame.signal_of
              /\ frame.signal_of[sub_strategies[i].name]
                    = sub_signal[selected_strategies[i]]
        /\ WithColumn(frame, sub_strategies) = 1..Len(sub_strategies)
        /\ \A t \in Dates :
              ~( /\ \A i \in 1..Len(selected_strategies) : OwnSignal(i, t) = 1
                 /\ \E i \in 1..Len(selected_strategies) : OwnSignal(i, t) = -1 )

\* two different sources were fused; on one bar both buy and the composite
\* buys, on the other one of them sells and the composite sells
C28_Witness ==
    /\ Fused
    /\ Len(selected_strategies) = 2
    /\ selected_strategies[1] # selected_strategies[2]
    /\ OwnSignal(1, 1) = 1
    /\ OwnSignal(2, 1) = 1
    /\ frame.signal[1] = 1
    /\ OwnSignal(1, 2) = -1
    /\ OwnSignal(2, 2) = 0
    /\ frame.signal[2] = -1

\* C16 (as claimed, for the combined kind): calculate_indicators or
\* generate_signals called on an instance to which no bars are bound
\* (is_initialized false) fails with ValueError and leaves the instance's
\* data, sub-strategy list and is_initialized flag unchanged.
C16_NoDataFails ==
    [][ (~is_initialized /\ gen_result' # gen_result) =>
           /\ gen_result'.kind = "ValueError"
           /\ sub_strategies' = sub_strategies
           /\ frame' = frame
           /\ is_initialized' = is_initialized ]_vars

\* C17 (as claimed): when the selected list contains an unregistered
\* identifier, at any position, every call of generate_signals on an instance
\* with bars bound fails with ValueError (unregistered strategy), the first
\* call and every later one; no call succeeds by fusing the sub-strategies
\* created before the failure.
C17_CompositionFailureRepeats ==
    ( /\ \E i \in 1..Len(selected_strategies) :
            selected_strategies[i] \notin DOMAIN global_strategy_registry
      /\ gen_result.kind # "none"
      /\ gen_result.op = "generate_signals" )
    => gen_result.kind = "ValueError"

----------------------------------------------------------------------------
(* Properties of the registry *)

\* C9: for an identifier that is not a key of the registry, create_strategy,
\* get_strategy and get_strategy_metadata each fail with ValueError, construct
\* nothing and leave the registry unchanged; create / get / metadata / list
\* calls never add, remove or replace a registry entry.
C9_UnknownIdentifierFails ==
    /\ [][ ( /\ call_result'.op \in {"create_strategy", "get_strategy",
                                     "get_strategy_metadata"}
             /\ call_result'.name \notin DOMAIN global_strategy_registry )
           => ( /\ call_result'.kind = "ValueError"
                /\ instances' = instances
                /\ global_strategy_registry' = global_strategy_registry ) ]_vars
    /\ [][ call_result'.op # "register_strategy"
           => global_strategy_registry' = global_strategy_registry ]_vars

\* C13: registering under an identifier that is already registered replaces
\* its entry by the new (descriptor, constructor) pair, keeps the number of
\* entries and keeps every other identifier's entry; get_strategy,
\* get_strategy_metadata and create_strategy answer from the entry in place,
\* which only register_strategy changes, hence from the last registration.
C13_LastRegistrationWins ==
    /\ [][ ( /\ call_result'.op = "register_strategy"
             /\ call_result' # call_result
             /\ call_result'.name \in DOMAIN global_strategy_registry )
           => ( /\ global_strategy_registry'[call_result'.name]
                     = [class |-> call_result'.value,
                        metadata |-> call_result'.metadata]
                /\ Cardinality(DOMAIN global_strategy_registry')
                     = Cardinality(DOMAIN global_strategy_registry)
                /\ \A k \in DOMAIN global_strategy_registry \ {call_result'.name} :
                       global_strategy_registry'[k] = global_strategy_registry[k] ) ]_vars
    /\ [][ call_result'.op # "register_strategy"
           => global_strategy_registry' = global_strategy_registry ]_vars
    /\ []( ( /\ call_result.op \in {"get_strategy", "get_strategy_metadata",
                                     "create_strategy"}
             /\ call_result.kind = "ok" )
           => CASE call_result.op = "get_strategy" ->
                     call_result.value
                        = global_strategy_registry[call_result.name].class
                [] call_result.op = "get_strategy_metadata" ->
                     call_result.value
                        = global_strategy_registry[call_result.name].metadata
                [] OTHER ->
                     call_result.value.class
                        = global_strategy_registry[call_result.name].class )

\* "basic_kdj", the only identifier ever registered, built a KDJStrategy
\* object, was registered again with another constructor and descriptor, and
\* create_strategy then built an object of the new constructor
C13_Witness ==
    /\ DOMAIN global_strategy_registry = {"basic_kdj"}
    /\ Len(instances) = 2
    /\ instances[1].class = "KDJStrategy"
    /\ instances[2].class = "SMA20Strategy"
    /\ call_result.op = "create_strategy"
    /\ call_result.kind = "ok"
    /\ global_strategy_registry["basic_kdj"].class = "SMA20Strategy"
    /\ global_strategy_registry["basic_kdj"].metadata.display_name
          = "KDJ, second edition"

\* kwargs without the keys that the signature of class does not name
WithoutUnknownKeys(class, kwargs) ==
    [k \in DOMAIN kwargs \cap SignatureOf(class) |-> kwargs[k]]

\* C14: for every registered identifier and every set of keyword arguments,
\* create_strategy hands the constructor exactly the supplied keys that its
\* signature names, with their values, and drops the others; the call fails
\* only over keys of the signature, and it ends as the same call without the
\* unknown keys ends.
C14_UnknownKeysDropped ==
    ( /\ call_result.op = "create_strategy"
      /\ call_result.name \in DOMAIN global_strategy_registry )
    => LET class == global_strategy_registry[call_result.name].class
           known == WithoutUnknownKeys(class, call_result.kwargs)
           again == create_strategy(global_strategy_registry, call_result.name, known)
       IN  /\ call_result.kind \in {"ok", "TypeError"}
           /\ call_result.kind = "TypeError"
                 <=> ("stock_code" \notin DOMAIN known \/ "self" \in DOMAIN known)
           /\ call_result.kind = again.kind
           /\ call_result.kind = "ok" =>
                 /\ call_result.value = [class |-> class, kwargs |-> known]
                 /\ call_result.value = again.value
                 /\ Last(instances) = call_result.value

\* a call with sell_ratio and n, which the constructor of SMA20Strategy does
\* not name, has built the object from stock_code alone
C14_Witness ==
    /\ call_result.op = "create_strategy"
    /\ call_result.kind = "ok"
    /\ DOMAIN call_result.kwargs = {"stock_code", "n", "sell_ratio"}
    /\ call_result.value.class = "SMA20Strategy"
    /\ DOMAIN Last(instances).kwargs = {"stock_code"}

\* create_strategy("unknown_id") has just failed, with other identifiers
\* registered and an object constructed earlier
C9_Witness ==
    /\ call_result.op = "create_strategy"
    /\ call_result.name = "unknown_id"
    /\ call_result.kind = "ValueError"
    /\ DOMAIN global_strategy_registry = {"basic_kdj", "sma20"}
    /\ Len(instances) = 1

====
